---- MODULE Spec2Model ----
(***************************************************************************)
(* Model of the dtracker equipment store (services/db), its record mapper  *)
(* and field normalizers, and of the UI handlers that call the store.      *)
(*                                                                         *)
(* JavaScript values are records [t |-> <typeof tag>, v |-> <String(x)>];  *)
(* an object value also carries o, its own enumerable properties, as a     *)
(* function whose DOMAIN is the set of keys that are present.              *)
(***************************************************************************)
EXTENDS Integers, Sequences, FiniteSets

(* ------------------------------------------------------------------ *)
(* JavaScript values                                                  *)
(* ------------------------------------------------------------------ *)

Undefined == [t |-> "undefined", v |-> "undefined"]

Null == [t |-> "null", v |-> "null"]

Num(text) == [t |-> "number", v |-> text]

Str(text) == [t |-> "string", v |-> text]

Bool(text) == [t |-> "boolean", v |-> text]

\* An object with no own property: {}.
EmptyProps == [k \in {} |-> Undefined]

ObjOf(props) == [t |-> "object", v |-> "[object Object]", o |-> props]

\* ToBoolean: what `x || y`, `!x` and `if (x)` test.
Truthy(x) ==
  CASE x.t = "undefined" -> FALSE
    [] x.t = "null"      -> FALSE
    [] x.t = "number"    -> x.v \notin {"0", "NaN"}
    [] x.t = "string"    -> x.v # ""
    [] x.t = "boolean"   -> x.v = "true"
    [] x.t = "object"    -> TRUE

\* String(x)
StringOf(x) == x.v

\* a || b
Or(a, b) == IF Truthy(a) THEN a ELSE b

\* The own properties a spread {...x} copies: those of an object; none for
\* null, undefined, a number or a boolean.
Props(x) == IF x.t = "object" THEN x.o ELSE EmptyProps

\* x.key when x is not null or undefined (a missing property reads undefined).
Get(x, key) == IF key \in DOMAIN Props(x) THEN Props(x)[key] ELSE Undefined

\* x.key throws a TypeError exactly when x is null or undefined.
ReadThrows(x) == x.t \in {"null", "undefined"}

\* String(x) and new Date(x) throw a TypeError exactly when x cannot be
\* converted to a primitive.  Of the values of a JSON text that is an object
\* with an own toString property: the property is not callable, and the
\* inherited valueOf returns the object itself.
ToPrimitiveThrows(x) == x.t = "object" /\ "toString" \in DOMAIN x.o

\* {...a, ...b} on property maps: b's keys overwrite a's.
Spread(a, b) ==
  [k \in (DOMAIN a) \cup (DOMAIN b) |-> IF k \in DOMAIN b THEN b[k] ELSE a[k]]

(* ------------------------------------------------------------------ *)
(* Strings                                                            *)
(* ------------------------------------------------------------------ *)

LowerLetters == "abcdefghijklmnopqrstuvwxyz"

UpperLetters == "ABCDEFGHIJKLMNOPQRSTUVWXYZ"

CharAt(s, i) == IF i >= 1 /\ i <= Len(s) THEN SubSeq(s, i, i) ELSE ""

\* Position of the one-character string c in s, 0 when it is not there.
RECURSIVE IndexFrom(_, _, _)
IndexFrom(c, s, i) ==
  IF i > Len(s) THEN 0
  ELSE IF SubSeq(s, i, i) = c THEN i
  ELSE IndexFrom(c, s, i + 1)

IndexOf(c, s) == IndexFrom(c, s, 1)

UpperChar(c) ==
  IF IndexOf(c, LowerLetters) > 0 THEN CharAt(UpperLetters, IndexOf(c, LowerLetters))
  ELSE c

LowerChar(c) ==
  IF IndexOf(c, UpperLetters) > 0 THEN CharAt(LowerLetters, IndexOf(c, UpperLetters))
  ELSE c

RECURSIVE ToUpperCase(_)
ToUpperCase(s) ==
  IF Len(s) = 0 THEN ""
  ELSE UpperChar(SubSeq(s, 1, 1)) \o ToUpperCase(SubSeq(s, 2, Len(s)))

RECURSIVE ToLowerCase(_)
ToLowerCase(s) ==
  IF Len(s) = 0 THEN ""
  ELSE LowerChar(SubSeq(s, 1, 1)) \o ToLowerCase(SubSeq(s, 2, Len(s)))

RECURSIVE TrimStart(_)
TrimStart(s) ==
  IF Len(s) > 0 /\ SubSeq(s, 1, 1) = " " THEN TrimStart(SubSeq(s, 2, Len(s)))
  ELSE s

RECURSIVE TrimEnd(_)
TrimEnd(s) ==
  IF Len(s) > 0 /\ SubSeq(s, Len(s), Len(s)) = " " THEN TrimEnd(SubSeq(s, 1, Len(s) - 1))
  ELSE s

\* String.prototype.trim
Trim(s) == TrimEnd(TrimStart(s))

\* s.slice(1)
Slice1(s) == SubSeq(s, 2, Len(s))

(* ------------------------------------------------------------------ *)
(* Dates.  An instant is a whole number of days since 1970-01-01T00:00Z; *)
(* the calendar of the model is January and February 1970, and NaN is  *)
(* the time value of an Invalid Date.                                  *)
(* ------------------------------------------------------------------ *)

NaN == 0 - 1

MsPerDay == 86400000

DaysInJanuary == 31

DaysInFebruary == 28

Digits == "0123456789"

IsDigit(c) == IndexOf(c, Digits) > 0

DigitVal(c) == IndexOf(c, Digits) - 1

RECURSIVE AllDigits(_)
AllDigits(s) ==
  IF Len(s) = 0 THEN TRUE
  ELSE IsDigit(SubSeq(s, 1, 1)) /\ AllDigits(SubSeq(s, 2, Len(s)))

\* The value of a string of decimal digits.
RECURSIVE DecimalValue(_)
DecimalValue(s) ==
  IF Len(s) = 0 THEN 0
  ELSE 10 * DecimalValue(SubSeq(s, 1, Len(s) - 1)) + DigitVal(SubSeq(s, Len(s), Len(s)))

TwoDigits(n) == CharAt(Digits, (n \div 10) + 1) \o CharAt(Digits, (n % 10) + 1)

MidnightSuffix == "T00:00:00.000Z"

\* Date.parse of "YYYY-MM-DD" (a date-only form is UTC midnight) and of
\* "YYYY-MM-DDT00:00:00.000Z"; any other text is not a date.
ParseDate(s) ==
  IF ~( (Len(s) = 10 \/ (Len(s) = 24 /\ SubSeq(s, 11, 24) = MidnightSuffix))
        /\ AllDigits(SubSeq(s, 1, 4)) /\ CharAt(s, 5) = "-"
        /\ AllDigits(SubSeq(s, 6, 7)) /\ CharAt(s, 8) = "-"
        /\ AllDigits(SubSeq(s, 9, 10)) )
  THEN NaN
  ELSE LET year  == DecimalValue(SubSeq(s, 1, 4))
           month == DecimalValue(SubSeq(s, 6, 7))
           day   == DecimalValue(SubSeq(s, 9, 10))
       IN  IF year = 1970 /\ month = 1 /\ day >= 1 /\ day <= DaysInJanuary THEN day - 1
           ELSE IF year = 1970 /\ month = 2 /\ day >= 1 /\ day <= DaysInFebruary
                THEN DaysInJanuary + day - 1
           ELSE NaN

\* new Date(x).getTime(): a string is parsed, a number is a count of
\* milliseconds (kept to the day), a boolean is 0 or 1 ms, anything else
\* that reaches the constructor here (an object) is an Invalid Date.
DateOf(x) ==
  CASE x.t = "string"  -> ParseDate(x.v)
    [] x.t = "number"  -> IF AllDigits(x.v) /\ Len(x.v) > 0 /\ Len(x.v) <= 9
                          THEN DecimalValue(x.v) \div MsPerDay ELSE NaN
    [] x.t = "boolean" -> 0
    [] OTHER           -> NaN

\* Date.prototype.toISOString of a valid instant of the calendar.
ToISOString(d) ==
  IF d < DaysInJanuary
  THEN "1970-01-" \o TwoDigits(d + 1) \o MidnightSuffix
  ELSE "1970-02-" \o TwoDigits(d - DaysInJanuary + 1) \o MidnightSuffix

(* ------------------------------------------------------------------ *)
(* Field normalizers (services/db)                                    *)
(* ------------------------------------------------------------------ *)

\* new Date(val) is outside safeDate's try block.
safeDateThrows(val) == Truthy(val) /\ ToPrimitiveThrows(val)

safeDate(val) ==
  IF ~Truthy(val) THEN ""
  ELSE IF DateOf(val) # NaN THEN ToISOString(DateOf(val))
  ELSE ""

\* String(val || '') has no try block around it.
normalizeEnumThrows(val) == Truthy(val) /\ ToPrimitiveThrows(val)

normalizeEnum(val, fallback) ==
  LET str == Trim(StringOf(Or(val, Str(""))))
  IN  IF str = "" THEN fallback
      ELSE ToUpperCase(CharAt(str, 1)) \o ToLowerCase(Slice1(str))

\* The members of the enums of types.ts.
EquipmentStatus == {"Available", "Assigned", "Maintenance", "Breakdown", "Disposed"}

EquipmentType == {"ANDT", "NA", "OCTG", "MARINE", "Accessory", "Other"}

(* ------------------------------------------------------------------ *)
(* Record mapper: the callback of importBulk's newItems.map           *)
(* ------------------------------------------------------------------ *)

\* A mapper that takes String(item.id) and never falls back to generateId().
ImportedIdNoFallback(item, gid) == Str(StringOf(Get(item, "id")))

\* The id of a mapped record: item.id ? String(item.id) : generateId()
ImportedId(item, gid) ==
  IF Truthy(Get(item, "id")) THEN Str(StringOf(Get(item, "id"))) ELSE Str(gid)

\* The mapped record of one batch element; gid is what generateId() returns
\* if it is called, now the instant new Date() reads.  Evaluated only for an
\* element whose properties can be read (see ReadThrows).
MapItem(item, gid, now) ==
  LET rawSerial == Or(Or(Or(Get(item, "serialNumber"), Get(item, "serial_number")),
                         Get(item, "SerialNumber")), Str("N/A"))
      serialNumber == StringOf(rawSerial)
      dueDate == safeDate(Or(Get(item, "dueDate"), Get(item, "due_date")))
      issueDate == safeDate(Or(Get(item, "issueDate"), Get(item, "issue_date")))
      empId == StringOf(Or(Or(Or(Get(item, "empId"), Get(item, "emp_id")),
                              Get(item, "employee_id")), Str("")))
      nameVal0 == Or(Or(Get(item, "name"), Get(item, "equipment_name")),
                     Str("Unknown Equipment"))
      assigneeVal0 == Or(Or(Get(item, "assigneeName"), Get(item, "assignee_name")), Str(""))
      hasEquipmentName == Truthy(Get(item, "equipment_name"))
      nameVal == IF hasEquipmentName THEN Get(item, "equipment_name") ELSE nameVal0
      assigneeVal == IF hasEquipmentName /\ Truthy(Get(item, "name")) /\ ~Truthy(assigneeVal0)
                     THEN Get(item, "name") ELSE assigneeVal0
  IN  Spread(Props(item),
        [ id           |-> ImportedId(item, gid),
          createdAt    |-> Or(Get(item, "createdAt"), Str(ToISOString(now))),
          serialNumber |-> Str(serialNumber),
          dueDate      |-> Str(dueDate),
          issueDate    |-> Str(issueDate),
          empId        |-> Str(empId),
          name         |-> Str(StringOf(nameVal)),
          assigneeName |-> Str(StringOf(assigneeVal)),
          status       |-> Str(normalizeEnum(Get(item, "status"), "Available")),
          type         |-> Str(normalizeEnum(Get(item, "type"), "Other")),
          location     |-> Str(StringOf(Or(Get(item, "location"), Str("")))),
          remarks      |-> Str(StringOf(Or(Get(item, "remarks"), Str("")))),
          service      |-> Str(StringOf(Or(Or(Get(item, "service"), Get(item, "services")),
                                           Str("")))),
          department   |-> Str(StringOf(Or(Get(item, "department"), Str("")))) ])

(* ------------------------------------------------------------------ *)
(* localStorage under STORAGE_KEY, and JSON                           *)
(* ------------------------------------------------------------------ *)

\* getItem returns null: nothing was ever stored.
NoValue == [kind |-> "absent", items |-> << >>]

\* A stored text that is the JSON of an array of records.
JsonText(items) == [kind |-> "json", items |-> items]

\* A stored text that JSON.parse rejects.
Unparseable == [kind |-> "corrupt", items |-> << >>]

\* JSON.stringify of one value inside a record: NaN becomes null.
JsonValue(x) == IF x.t = "number" /\ x.v = "NaN" THEN Null ELSE x

\* JSON.stringify of one record: a property whose value is undefined is left out.
JsonProps(rec) ==
  [k \in {key \in DOMAIN rec : rec[key].t # "undefined"} |-> JsonValue(rec[k])]

\* JSON.stringify(items), as stored by setItem.
Stringify(items) == JsonText([i \in 1..Len(items) |-> JsonProps(items[i])])

\* `stored ? JSON.parse(stored) : []` throws a SyntaxError on an unparseable text.
ParseThrows(stored) == stored.kind = "corrupt"

\* `stored ? JSON.parse(stored) : []` when it does not throw.
ParseOrEmpty(stored) == IF stored.kind = "json" THEN stored.items ELSE << >>

\* The index findIndex returns for String(item.id) === String(id), 0 for -1.
RECURSIVE FindIndexFrom(_, _, _)
FindIndexFrom(items, id, i) ==
  IF i > Len(items) THEN 0
  ELSE IF StringOf(Get(ObjOf(items[i]), "id")) = StringOf(id) THEN i
  ELSE FindIndexFrom(items, id, i + 1)

FindIndex(items, id) == FindIndexFrom(items, id, 1)

\* items.filter(item => String(item.id) !== String(id))
RECURSIVE FilterOut(_, _)
FilterOut(items, id) ==
  IF Len(items) = 0 THEN << >>
  ELSE IF StringOf(Get(ObjOf(Head(items)), "id")) # StringOf(id)
       THEN << Head(items) >> \o FilterOut(Tail(items), id)
       ELSE FilterOut(Tail(items), id)

(* ------------------------------------------------------------------ *)
(* The store operations (services/db), each from the point where its  *)
(* delay has elapsed: what it leaves in localStorage, how it ends     *)
(* ("ok" or the error it throws) and the records it returns.          *)
(* ------------------------------------------------------------------ *)

Outcome(stored, result, ret) == [storage |-> stored, result |-> result, ret |-> ret]

getAll(stored) ==
  IF stored.kind = "absent" THEN Outcome(stored, "ok", << >>)
  ELSE IF stored.kind = "corrupt" THEN Outcome(stored, "ok", << >>)
  ELSE Outcome(stored, "ok", stored.items)

\* An update that stores the updates as a new record when no id matches.
updateOrInsert(stored, id, updates) ==
  IF ParseThrows(stored) THEN Outcome(stored, "SyntaxError", << >>)
  ELSE LET items == ParseOrEmpty(stored)
           index == FindIndex(items, id)
       IN  IF index = 0
           THEN Outcome(Stringify(Append(items, updates)), "ok", << updates >>)
           ELSE LET updatedItem == Spread(items[index], updates)
                IN  Outcome(Stringify([items EXCEPT ![index] = updatedItem]), "ok",
                            << updatedItem >>)

\* An update that stores the updates in place of the record.
updateReplace(stored, id, updates) ==
  IF ParseThrows(stored) THEN Outcome(stored, "SyntaxError", << >>)
  ELSE LET items == ParseOrEmpty(stored)
           index == FindIndex(items, id)
       IN  IF index = 0 THEN Outcome(stored, "Item not found", << >>)
           ELSE Outcome(Stringify([items EXCEPT ![index] = updates]), "ok", << updates >>)

update(stored, id, updates) ==
  IF ParseThrows(stored) THEN Outcome(stored, "SyntaxError", << >>)
  ELSE LET items == ParseOrEmpty(stored)
           index == FindIndex(items, id)
       IN  IF index = 0 THEN Outcome(stored, "Item not found", << >>)
           ELSE LET updatedItem == Spread(items[index], updates)
                IN  Outcome(Stringify([items EXCEPT ![index] = updatedItem]), "ok",
                            << updatedItem >>)

add(stored, item, gid, now) ==
  IF ParseThrows(stored) THEN Outcome(stored, "SyntaxError", << >>)
  ELSE LET items == ParseOrEmpty(stored)
           newItem == Spread(item, [id |-> Str(gid), createdAt |-> Str(ToISOString(now))])
       IN  Outcome(Stringify(Append(items, newItem)), "ok", << newItem >>)

\* A delete that removes the first match only, as update changes it.
deleteFirst(stored, id) ==
  IF ParseThrows(stored) THEN Outcome(stored, "SyntaxError", << >>)
  ELSE LET items == ParseOrEmpty(stored)
           index == FindIndex(items, id)
       IN  IF index = 0 THEN Outcome(Stringify(items), "ok", << >>)
           ELSE Outcome(Stringify(SubSeq(items, 1, index - 1)
                                    \o SubSeq(items, index + 1, Len(items))), "ok", << >>)

delete(stored, id) ==
  IF ParseThrows(stored) THEN Outcome(stored, "SyntaxError", << >>)
  ELSE Outcome(Stringify(FilterOut(ParseOrEmpty(stored), id)), "ok", << >>)

\* The map callback throws a TypeError on an element of which a value it
\* converts (by String, safeDate or normalizeEnum) has no primitive form.
MapThrows(item) ==
  \/ \E key \in {"id", "location", "remarks", "department"} :
       Truthy(Get(item, key)) /\ ToPrimitiveThrows(Get(item, key))
  \/ ToPrimitiveThrows(Or(Or(Get(item, "serialNumber"), Get(item, "serial_number")),
                          Get(item, "SerialNumber")))
  \/ ToPrimitiveThrows(Or(Or(Get(item, "empId"), Get(item, "emp_id")),
                          Get(item, "employee_id")))
  \/ ToPrimitiveThrows(Or(Get(item, "service"), Get(item, "services")))
  \/ ToPrimitiveThrows(Or(Get(item, "name"), Get(item, "equipment_name")))
  \/ ToPrimitiveThrows(Or(Get(item, "assigneeName"), Get(item, "assignee_name")))
  \/ safeDateThrows(Or(Get(item, "dueDate"), Get(item, "due_date")))
  \/ safeDateThrows(Or(Get(item, "issueDate"), Get(item, "issue_date")))
  \/ normalizeEnumThrows(Get(item, "status"))
  \/ normalizeEnumThrows(Get(item, "type"))

\* An importBulk that stores the mapped batch in place of the collection.
importBulkOverwrite(stored, newItems, gids, now) ==
  IF ParseThrows(stored) THEN Outcome(stored, "SyntaxError", << >>)
  ELSE IF \E i \in 1..Len(newItems) : ReadThrows(newItems[i]) \/ MapThrows(newItems[i])
       THEN Outcome(stored, "TypeError", << >>)
       ELSE Outcome(Stringify([i \in 1..Len(newItems) |-> MapItem(newItems[i], gids[i], now)]),
                    "ok", << >>)

\* gids[i] is what generateId() returns for element i, if it is called.
importBulk(stored, newItems, gids, now) ==
  IF ParseThrows(stored) THEN Outcome(stored, "SyntaxError", << >>)
  ELSE IF \E i \in 1..Len(newItems) : ReadThrows(newItems[i]) \/ MapThrows(newItems[i])
       THEN Outcome(stored, "TypeError", << >>)
       ELSE LET currentItems == ParseOrEmpty(stored)
                processed == [i \in 1..Len(newItems) |-> MapItem(newItems[i], gids[i], now)]
            IN  Outcome(Stringify(currentItems \o processed), "ok", << >>)

(* ------------------------------------------------------------------ *)
(* EquipmentList.handleImportClick: the reader's onload handler       *)
(* ------------------------------------------------------------------ *)

\* A picked file, by what JSON.parse makes of its text: it throws
\* ("unparseable"), returns something that is not an array ("value"), or
\* returns an array of `elements` ("array").
FileOf(kind, elements) == [kind |-> kind, elements |-> elements]

NoFile == FileOf("none", << >>)

AlertInvalidJson == "Invalid JSON file"

AlertNotArray == "Invalid file format: Root must be an array."

AlertSuccess == "Import successful!"

\* What the handler does: whether it called importBulk and how that ended,
\* what it left in localStorage, and the alert it showed.
Handled(called, out, alert) == [called |-> called, out |-> out, alert |-> alert]

\* A handler that imports a root that is not an array as a batch of no elements.
handleImportClickLenient(stored, file, gids, now) ==
  IF file.kind = "unparseable"
  THEN Handled(FALSE, Outcome(stored, "ok", << >>), AlertInvalidJson)
  ELSE LET out == importBulk(stored, file.elements, gids, now)
       IN  IF out.result = "ok" THEN Handled(TRUE, out, AlertSuccess)
           ELSE Handled(TRUE, out, AlertInvalidJson)

handleImportClick(stored, file, gids, now) ==
  IF file.kind = "unparseable"
  THEN Handled(FALSE, Outcome(stored, "ok", << >>), AlertInvalidJson)
  ELSE IF file.kind # "array"
       THEN Handled(FALSE, Outcome(stored, "ok", << >>), AlertNotArray)
       ELSE LET out == importBulk(stored, file.elements, gids, now)
            IN  IF out.result = "ok" THEN Handled(TRUE, out, AlertSuccess)
                ELSE Handled(TRUE, out, AlertInvalidJson)

(* ------------------------------------------------------------------ *)
(* Dashboard: the stats of the records it is given                    *)
(* ------------------------------------------------------------------ *)

\* The Dashboard compares instants that are not a whole number of days
\* apart, so its instants are whole hours since 1970-01-01T00:00Z.
HoursPerDay == 24

\* The first day of the month the day is in (of the calendar above).
MonthStart(day) == IF day < DaysInJanuary THEN 0 ELSE DaysInJanuary

\* d.getDate(): the day of the month, where local time is UTC.
GetDate(h) == (h \div HoursPerDay) - MonthStart(h \div HoursPerDay) + 1

\* d.setDate(dayOfMonth): the instant whose local date is that day of d's
\* month (days past the month's end run on) and whose local time of day is
\* d's.  Local time is UTC on d's date and `shift` hours ahead of UTC on the
\* date set, `shift` being the change of the zone's offset in between.
SetDate(h, dayOfMonth, shift) ==
  (MonthStart(h \div HoursPerDay) + dayOfMonth - 1) * HoursPerDay + (h % HoursPerDay) - shift

\* item.status ? String(item.status).toLowerCase().trim() : '', compared as written.
StatusKeyExact(item) ==
  IF Truthy(Get(ObjOf(item), "status"))
  THEN Trim(StringOf(Get(ObjOf(item), "status"))) ELSE ""

\* item.status ? String(item.status).toLowerCase().trim() : ''
StatusKey(item) ==
  IF Truthy(Get(ObjOf(item), "status"))
  THEN Trim(ToLowerCase(StringOf(Get(ObjOf(item), "status")))) ELSE ""

\* The key of byType: the trimmed type, or 'Other', first letter in upper
\* case and the rest in lower case.
DisplayType(item) ==
  LET type == IF Truthy(Get(ObjOf(item), "type"))
              THEN Trim(StringOf(Get(ObjOf(item), "type"))) ELSE "Other"
  IN  ToUpperCase(CharAt(type, 1)) \o ToLowerCase(Slice1(type))

\* The expiration test of one record.
IsExpiring(item, thirtyDaysFromNow) ==
  /\ Truthy(Get(ObjOf(item), "dueDate"))
  /\ LET due == DateOf(Get(ObjOf(item), "dueDate"))
     IN  due # NaN /\ due * HoursPerDay <= thirtyDaysFromNow

\* The counters before data.forEach.
ZeroStats ==
  [expired |-> 0, breakdown |-> 0, maintenance |-> 0, byType |-> EmptyProps, total |-> 0]

\* One turn of data.forEach.
CountItem(acc, item, thirtyDaysFromNow) ==
  LET displayType == DisplayType(item)
      status == StatusKey(item)
  IN  [ expired     |-> acc.expired + (IF IsExpiring(item, thirtyDaysFromNow) THEN 1 ELSE 0),
        breakdown   |-> acc.breakdown + (IF status = ToLowerCase("Breakdown") THEN 1 ELSE 0),
        maintenance |-> acc.maintenance + (IF status = ToLowerCase("Maintenance") THEN 1 ELSE 0),
        byType      |-> [k \in (DOMAIN acc.byType) \cup {displayType} |->
                           IF k = displayType
                           THEN (IF k \in DOMAIN acc.byType THEN acc.byType[k] ELSE 0) + 1
                           ELSE acc.byType[k]],
        total       |-> acc.total ]

RECURSIVE CountFrom(_, _, _, _)
CountFrom(acc, data, i, thirtyDaysFromNow) ==
  IF i > Len(data) THEN acc
  ELSE CountFrom(CountItem(acc, data[i], thirtyDaysFromNow), data, i + 1, thirtyDaysFromNow)

\* The stats memo.  `now` and `later` are the instants the two new Date()
\* calls read, `shift` the change of the local UTC offset between the date of
\* `later` and the date setDate moves it to.
stats(data, now, later, shift) ==
  LET thirtyDaysFromNow == SetDate(later, GetDate(now) + 30, shift)
  IN  [CountFrom(ZeroStats, data, 1, thirtyDaysFromNow) EXCEPT !.total = Len(data)]

(* ------------------------------------------------------------------ *)
(* EquipmentModal: the form a record is edited with                   *)
(* ------------------------------------------------------------------ *)

safeDateToInput(dateStr) ==
  IF ~Truthy(dateStr) THEN ""
  ELSE IF DateOf(dateStr) = NaN THEN ""
  ELSE SubSeq(ToISOString(DateOf(dateStr)), 1, 10)

\* The form state the effect sets when the modal opens on `equipment`.
InitialFormData(equipment) ==
  [ status       |-> Get(ObjOf(equipment), "status"),
    issueDate    |-> Str(safeDateToInput(Get(ObjOf(equipment), "issueDate"))),
    dueDate      |-> Str(safeDateToInput(Get(ObjOf(equipment), "dueDate"))),
    empId        |-> Get(ObjOf(equipment), "empId"),
    assigneeName |-> Get(ObjOf(equipment), "assigneeName"),
    location     |-> Get(ObjOf(equipment), "location"),
    remarks      |-> Get(ObjOf(equipment), "remarks"),
    name         |-> Get(ObjOf(equipment), "name") ]

\* One date field of handleSubmit: a value that parses becomes its ISO form,
\* an empty or unparseable one is sent as it is.
SubmitDate(x) ==
  IF Truthy(x) /\ DateOf(x) # NaN THEN Str(ToISOString(DateOf(x))) ELSE x

\* The updates handleSubmit passes to onSave, from the form state.
SubmitUpdates(formData, mode) ==
  LET u1 == IF mode = "issue" THEN Spread(formData, [status |-> Str("Assigned")])
            ELSE formData
      u2 == IF "issueDate" \in DOMAIN u1
            THEN Spread(u1, [issueDate |-> SubmitDate(u1["issueDate"])]) ELSE u1
  IN  IF "dueDate" \in DOMAIN u2
      THEN Spread(u2, [dueDate |-> SubmitDate(u2["dueDate"])]) ELSE u2

(* ------------------------------------------------------------------ *)
(* Inputs                                                             *)
(* ------------------------------------------------------------------ *)

\* The store holds at most MaxItems records and MaxCalls store calls are made.
MaxItems == 4

MaxCalls == 2

\* What generateId() can return: it draws at random and checks nothing.
GenIds == {"k3x9q7m2a", "z81hd02pf"}

\* The days new Date() can read.
Nows == {0, 1}

\* Elements of an import file's array.
ItemEmpty == ObjOf(EmptyProps)

ItemNumericId == ObjOf([id |-> Num("1")])

ItemMessy ==
  ObjOf([id |-> Str("1"), status |-> Str("breakdown"), type |-> Str("ANDT"),
         dueDate |-> Str("garbage")])

ItemDrill ==
  ObjOf([id |-> Num("42"), due_date |-> Str("1970-01-02"),
         equipment_name |-> Str("Drill"), name |-> Str("Alice")])

ItemAliases ==
  ObjOf([status |-> Str(" MAINTENANCE "), type |-> Str("foobar"),
         issue_date |-> Num("86400000"), createdAt |-> Str("1970-01-05T00:00:00.000Z"),
         serial_number |-> Str("S1"), SerialNumber |-> Str("S2")])

\* An element whose first-choice keys are present with falsy values.
ItemFalsy ==
  ObjOf([id |-> Num("0"), equipment_name |-> Str(""), name |-> Str("Alice"),
         serialNumber |-> Str(""), serial_number |-> Str("S1"),
         empId |-> Num("0"), emp_id |-> Str("E7"),
         service |-> Str(""), services |-> Str("Lab")])

\* An element with a due date that has no primitive form.
ItemUnprintable == ObjOf([id |-> Num("9"), dueDate |-> ObjOf([toString |-> Num("1")])])

\* An element between two of the same id.
ItemKept == ObjOf([id |-> Num("43"), name |-> Str("Winch")])

\* The arrays importBulk is called with.
Batches ==
  { << >>,
    << ItemEmpty >>,
    << ItemNumericId, ItemMessy >>,
    << ItemNumericId, ItemNumericId >>,
    << ItemNumericId, ItemKept, ItemNumericId >>,
    << ItemDrill >>,
    << ItemFalsy >>,
    << ItemUnprintable >>,
    << ItemAliases, ItemEmpty >>,
    << ItemDrill, Null >>,
    << Num("5") >> }

\* Records a caller of add passes (Omit<Equipment, 'id' | 'createdAt'>).
AddItems ==
  { [ type |-> Str("OCTG"), service |-> Str(""), department |-> Str(""),
      status |-> Str("Available"), name |-> Str("Pipe"), serialNumber |-> Str("N/A"),
      dueDate |-> Str(""), issueDate |-> Str(""), empId |-> Str(""),
      assigneeName |-> Str(""), location |-> Str(""), remarks |-> Str("") ] }

\* The id argument of update and delete.
IdArgs == { Str("1"), Str("42"), Str("k3x9q7m2a"), Str("7") }

\* The updates argument of update (Partial<Equipment>).
UpdateArgs ==
  { [status |-> Str("Assigned"), dueDate |-> Str("1970-01-03T00:00:00.000Z")],
    [dueDate |-> Str("garbage")],
    [createdAt |-> Str("1970-02-01T00:00:00.000Z")],
    [id |-> Str("7")] }

\* What the user changes in the modal's form before submitting: each is a
\* set of handleChange calls, [field |-> value].
FormEdits ==
  { EmptyProps,
    [dueDate |-> Str("1970-01-03")],
    [issueDate |-> Str("garbage"), remarks |-> Str("checked")] }

Modes == {"issue", "edit"}

\* Records the Dashboard is given: stored records, of which the stats read
\* status, type and dueDate.
DashRecords ==
  { [id |-> Str("1"), status |-> Str("breakdown"), type |-> Str("ANDT"), dueDate |-> Str("")],
    [id |-> Str("2"), status |-> Str("Breakdown"), type |-> Str("Andt"),
     dueDate |-> Str("1970-02-01T00:00:00.000Z")],
    [id |-> Str("3"), status |-> Str(" MAINTENANCE "), type |-> Str(" octg"),
     dueDate |-> Str("1970-02-02T00:00:00.000Z")],
    [id |-> Str("4"), status |-> Str("Maintenance"), type |-> Str(""),
     dueDate |-> Str("1970-01-01T00:00:00.000Z")],
    [id |-> Str("5"), status |-> Str(" breakdown"), type |-> Str(" "),
     dueDate |-> Str("garbage")],
    [id |-> Str("6"), status |-> Str("Available"), type |-> Str("Other"),
     dueDate |-> Str("1970-02-01")] }

MaxData == 2

\* The record sets the Dashboard is given.
DataSets == UNION { [1..n -> DashRecords] : n \in 0..MaxData }

\* The hours new Date() can read when the stats are computed: the first and
\* the last hour of 1970-01-02, 30 days before 1970-02-01.
DashNows == {24, 47}

\* The changes of the local UTC offset, in hours, over the 30 days: none,
\* daylight saving time begins, daylight saving time ends.
ZoneShifts == {0, 1, 0 - 1}

\* The values the normalizers are called with.
NormalizerTexts ==
  { "", " ", "x", "laptop", "LAPTOP", " aNDT ", "Breakdown", "in USE",
    "garbage", "1970-01-02", "1970-02-28", "1970-01-05T00:00:00.000Z" }

NormalizerValues ==
  { Undefined, Null, Num("0"), Num("5"), Num("86400000"), Num("NaN"),
    Bool("false"), Bool("true"), ObjOf(EmptyProps), ObjOf([toString |-> Num("1")]) }
  \cup { Str(text) : text \in NormalizerTexts }

Fallbacks == {"Available", "Other"}

\* The files the user picks in the import dialog.
ImportFiles ==
  { FileOf("unparseable", << >>),
    FileOf("value", << >>),
    FileOf("array", << ItemDrill >>),
    FileOf("array", << ItemEmpty, Null >>) }

(* ------------------------------------------------------------------ *)
(* State                                                              *)
(* ------------------------------------------------------------------ *)

VARIABLES
  storage,   \* localStorage's value under STORAGE_KEY
  last,      \* the last store call: its name, arguments and outcome
  calls,     \* the number of store calls and import attempts made
  ui,        \* the file the last step's import handler read and the alert it showed
  pending,   \* the store calls issued and not awaited, still in their delay
  issued,    \* every store call issued without being awaited, in issue order
  dash,      \* the Dashboard: its data, the clock and zone it runs in, its stats
  norm,      \* a normalizer under test: its arguments, its calls and their results
  app        \* the App: its data and loading state, the handlers that are awaiting

vars == << storage, last, calls, ui, pending, issued, dash, norm, app >>

\* The App's state.  `tasks` are its handlers that are awaiting a store
\* call, `started` counts the user's actions, `overlapped` remembers that two
\* fetchData calls were awaiting getAll at once.
AppState(data, loading, tasks, started, overlapped) ==
  [data |-> data, loading |-> loading, tasks |-> tasks, started |-> started,
   overlapped |-> overlapped]

\* No App is mounted.
NoApp == AppState(<< >>, TRUE, {}, 0, FALSE)

\* A normalizer with its arguments, not yet called.  `out` is what the last
\* call returned, `prev` what the call before it returned, `threw` whether
\* the last call threw.
Uncalled(fn, val, fallback) ==
  [fn |-> fn, val |-> val, fallback |-> fallback, applied |-> 0,
   out |-> "", prev |-> "", threw |-> FALSE]

\* A Dashboard that is given the data and has not computed its stats.
Mounted(data, now, later, shift) ==
  [data |-> data, now |-> now, later |-> later, shift |-> shift,
   rendered |-> FALSE, stats |-> ZeroStats]

\* No import handler ran in the last step.
Idle == [file |-> NoFile, alert |-> ""]

\* No store call was made in the last step.
NoCall ==
  [op |-> "none", id |-> Undefined, updates |-> EmptyProps, batch |-> << >>,
   generated |-> << >>, result |-> "ok", ret |-> << >>]

Call(op, id, updates, batch, generated, out) ==
  [op |-> op, id |-> id, updates |-> updates, batch |-> batch, generated |-> generated,
   result |-> out.result, ret |-> out.ret]

\* The ids generateId() returned to importBulk, element by element: "" for an
\* element whose own id is used, for which it is not called.
GeneratedIds(newItems, gids) ==
  [i \in 1..Len(newItems) |-> IF Truthy(Get(newItems[i], "id")) THEN "" ELSE gids[i]]

Init ==
  /\ storage = NoValue
  /\ calls = 0
  /\ last = NoCall
  /\ ui = Idle
  /\ pending = {}
  /\ issued = << >>
  /\ dash = Mounted(<< >>, 0, 0, 0)
  /\ norm = Uncalled("none", Undefined, "")
  /\ app = NoApp

\* The records the store holds, as getAll reads them.
Items == getAll(storage).ret

\* A store call that ends as `out`.
Done(op, id, updates, batch, generated, out) ==
  /\ calls < MaxCalls
  /\ calls' = calls + 1
  /\ last' = Call(op, id, updates, batch, generated, out)
  /\ storage' = out.storage
  /\ ui' = Idle
  /\ UNCHANGED << pending, issued, dash, norm, app >>

GetAll == Done("getAll", Undefined, EmptyProps, << >>, << >>, getAll(storage))

Update ==
  \E id \in IdArgs, updates \in UpdateArgs :
    Done("update", id, updates, << >>, << >>, update(storage, id, updates))

Add ==
  \E item \in AddItems, gid \in GenIds, now \in Nows :
    /\ Len(Items) < MaxItems
    /\ Done("add", Undefined, item, << >>, << gid >>, add(storage, item, gid, now))

Delete ==
  \E id \in IdArgs :
    Done("delete", id, EmptyProps, << >>, << >>, delete(storage, id))

ImportBulk ==
  \E newItems \in Batches :
    /\ Len(Items) + Len(newItems) <= MaxItems
    /\ \E gids \in [1..Len(newItems) -> GenIds], now \in Nows :
         Done("importBulk", Undefined, EmptyProps, newItems, GeneratedIds(newItems, gids),
              importBulk(storage, newItems, gids, now))

\* EquipmentModal.handleSubmit on a listed record, through
\* EquipmentList.handleUpdate, to db.update.
HandleSubmit ==
  \E i \in 1..Len(Items), edits \in FormEdits, mode \in Modes :
    LET equipment == Items[i]
        formData == Spread(InitialFormData(equipment), edits)
        updates == SubmitUpdates(formData, mode)
        id == Get(ObjOf(equipment), "id")
    IN  Done("update", id, updates, << >>, << >>, update(storage, id, updates))

\* The user picks a file in the import dialog and the reader's onload runs.
HandleImportClick ==
  \E file \in ImportFiles :
    /\ calls < MaxCalls
    /\ Len(Items) + Len(file.elements) <= MaxItems
    /\ \E gids \in [1..Len(file.elements) -> GenIds], now \in Nows :
         LET h == handleImportClick(storage, file, gids, now)
         IN  /\ calls' = calls + 1
             /\ last' = IF h.called
                        THEN Call("importBulk", Undefined, EmptyProps, file.elements,
                                  GeneratedIds(file.elements, gids), h.out)
                        ELSE NoCall
             /\ storage' = h.out.storage
             /\ ui' = [file |-> file, alert |-> h.alert]
             /\ UNCHANGED << pending, issued, dash, norm, app >>

Next ==
  \/ GetAll
  \/ Update
  \/ Add
  \/ Delete
  \/ ImportBulk
  \/ HandleSubmit
  \/ HandleImportClick

Spec == Init /\ [][Next]_vars

\* Something other than the store leaves an unparseable text under the key.
Tamper ==
  /\ storage.kind # "corrupt"
  /\ storage' = Unparseable
  /\ UNCHANGED << last, calls, ui, pending, issued, dash, norm, app >>

NextTampered == Next \/ Tamper

SpecTampered == Init /\ [][NextTampered]_vars

(* ------------------------------------------------------------------ *)
(* Store calls issued without awaiting one another                    *)
(* ------------------------------------------------------------------ *)

\* Every db method is `await delay(ms)` followed, with no further await, by
\* getItem, the computation and setItem.  A call that is not awaited is
\* therefore two steps: it is issued (its timer starts) and, once the timer
\* has fired, its body runs to the end before any other callback.

MaxAsync == 3

\* The calls issued without awaiting, with the values generateId() and
\* new Date() give them.
AsyncCalls ==
  { [op |-> "importBulk", id |-> Undefined, updates |-> EmptyProps,
     batch |-> << ItemNumericId >>, gids |-> << "z81hd02pf" >>, now |-> 0],
    [op |-> "add", id |-> Undefined,
     updates |-> [type |-> Str("OCTG"), status |-> Str("Available"), name |-> Str("Pipe")],
     batch |-> << >>, gids |-> << "k3x9q7m2a" >>, now |-> 1],
    [op |-> "update", id |-> Str("1"), updates |-> [status |-> Str("Assigned")],
     batch |-> << >>, gids |-> << >>, now |-> 0],
    [op |-> "delete", id |-> Str("1"), updates |-> EmptyProps,
     batch |-> << >>, gids |-> << >>, now |-> 0] }

\* The body of a call, run on the localStorage value it reads.
Perform(stored, call) ==
  CASE call.op = "importBulk" -> importBulk(stored, call.batch, call.gids, call.now)
    [] call.op = "add"        -> add(stored, call.updates, call.gids[1], call.now)
    [] call.op = "update"     -> update(stored, call.id, call.updates)
    [] call.op = "delete"     -> delete(stored, call.id)

\* A body that works on the value localStorage had when the call was issued.
ReadAtIssue(call, current) == call.seen

\* What localStorage.getItem returns in the body of a call: the value
\* current when the body runs, after the delay.
ReadAt(call, current) == current

\* A call is made and not awaited: its delay starts.  `n` tells apart two
\* calls of the same arguments; `seen` remembers the localStorage value at
\* that moment, which the code does not read.
Issue ==
  \E c \in AsyncCalls :
    /\ Len(issued) < MaxAsync
    /\ LET call == [n |-> Len(issued) + 1, seen |-> storage, op |-> c.op, id |-> c.id,
                    updates |-> c.updates, batch |-> c.batch, gids |-> c.gids,
                    now |-> c.now]
       IN  /\ pending' = pending \cup {call}
           /\ issued' = Append(issued, call)
    /\ UNCHANGED << storage, last, calls, ui, dash, norm, app >>

\* The delay of a pending call is over: its body runs to completion.
Run ==
  \E call \in pending :
    LET out == Perform(ReadAt(call, storage), call)
    IN  /\ storage' = out.storage
        /\ last' = Call(call.op, call.id, call.updates, call.batch,
                        GeneratedIds(call.batch, call.gids), out)
        /\ pending' = pending \ {call}
        /\ UNCHANGED << calls, ui, issued, dash, norm, app >>

NextAsync ==
  \/ Issue
  \/ Run

SpecAsync == Init /\ [][NextAsync]_vars

(* ------------------------------------------------------------------ *)
(* The Dashboard computing its stats                                  *)
(* ------------------------------------------------------------------ *)

\* The Dashboard is given a record set; the second clock reading is the
\* first one, or the hour after it.
InitDashboard ==
  /\ storage = NoValue
  /\ last = NoCall
  /\ calls = 0
  /\ ui = Idle
  /\ pending = {}
  /\ issued = << >>
  /\ \E data \in DataSets, now \in DashNows, shift \in ZoneShifts :
       \E later \in {now, now + 1} : dash = Mounted(data, now, later, shift)
  /\ norm = Uncalled("none", Undefined, "")
  /\ app = NoApp

\* The stats memo is computed.
RenderDashboard ==
  /\ ~dash.rendered
  /\ dash' = [dash EXCEPT !.rendered = TRUE,
                          !.stats = stats(dash.data, dash.now, dash.later, dash.shift)]
  /\ UNCHANGED << storage, last, calls, ui, pending, issued, norm, app >>

NextDashboard == RenderDashboard

SpecDashboard == InitDashboard /\ [][NextDashboard]_vars

(* ------------------------------------------------------------------ *)
(* The field normalizers called on their own                          *)
(* ------------------------------------------------------------------ *)

InitNormalizers ==
  /\ storage = NoValue
  /\ last = NoCall
  /\ calls = 0
  /\ ui = Idle
  /\ pending = {}
  /\ issued = << >>
  /\ dash = Mounted(<< >>, 0, 0, 0)
  /\ \/ \E val \in NormalizerValues, fallback \in Fallbacks :
          norm = Uncalled("normalizeEnum", val, fallback)
     \/ \E val \in NormalizerValues : norm = Uncalled("safeDate", val, "")
  /\ app = NoApp

\* normalizeEnum(val, fallback) is called.
ApplyNormalizeEnum ==
  /\ norm.fn = "normalizeEnum" /\ norm.applied = 0
  /\ norm' = [norm EXCEPT !.applied = 1,
                          !.threw = normalizeEnumThrows(norm.val),
                          !.out = IF normalizeEnumThrows(norm.val) THEN ""
                                  ELSE normalizeEnum(norm.val, norm.fallback)]
  /\ UNCHANGED << storage, last, calls, ui, pending, issued, dash, app >>

\* safeDate is called: on val first, then on what it returned.
ApplySafeDate ==
  /\ norm.fn = "safeDate" /\ norm.applied < 2 /\ ~norm.threw
  /\ LET arg == IF norm.applied = 0 THEN norm.val ELSE Str(norm.out)
     IN  norm' = [norm EXCEPT !.applied = norm.applied + 1,
                             !.prev = norm.out,
                             !.threw = safeDateThrows(arg),
                             !.out = IF safeDateThrows(arg) THEN "" ELSE safeDate(arg)]
  /\ UNCHANGED << storage, last, calls, ui, pending, issued, dash, app >>

NextNormalizers ==
  \/ ApplyNormalizeEnum
  \/ ApplySafeDate

SpecNormalizers == InitNormalizers /\ [][NextNormalizers]_vars

(* ------------------------------------------------------------------ *)
(* The App: handlers of the list that change the store and refresh    *)
(* ------------------------------------------------------------------ *)

MaxUi == 2

\* What the user does in the list: delete a record, submit the modal for a
\* record, import a file.
UiCalls ==
  { [op |-> "delete", id |-> Str("1"), updates |-> EmptyProps,
     batch |-> << >>, gids |-> << >>, now |-> 0],
    [op |-> "update", id |-> Str("1"), updates |-> [status |-> Str("Assigned")],
     batch |-> << >>, gids |-> << >>, now |-> 0],
    [op |-> "update", id |-> Str("7"), updates |-> [status |-> Str("Disposed")],
     batch |-> << >>, gids |-> << >>, now |-> 0],
    [op |-> "importBulk", id |-> Undefined, updates |-> EmptyProps,
     batch |-> << ItemNumericId >>, gids |-> << "z81hd02pf" >>, now |-> 0] }

\* The fetchData of the mount effect makes no store call but getAll.
MountCall ==
  [op |-> "mount", id |-> Undefined, updates |-> EmptyProps,
   batch |-> << >>, gids |-> << >>, now |-> 0]

\* What is persisted when the App is mounted: nothing, or what an earlier
\* session imported.
AppStores == { NoValue, Stringify(<< MapItem(ItemDrill, "k3x9q7m2a", 0) >>) }

\* A handler awaiting the store call of its phase: "op" for the db call of
\* handleDelete, handleUpdate or the import's onload, "fetch" for the getAll
\* of fetchData.  `seen` is the localStorage value when the phase began.
Task(n, phase, call, seen) == [n |-> n, phase |-> phase, call |-> call, seen |-> seen]

\* A fetchData that shows the collection as it was when the fetch began.
FetchedAtStart(task, current) == getAll(task.seen).ret

\* What fetchData passes to setData: what getAll returns, reading
\* localStorage when its delay is over.
Fetched(task, current) == getAll(current).ret

\* The App is mounted: data is [], loading is true and the effect has
\* called fetchData.
InitApp ==
  /\ last = NoCall
  /\ calls = 0
  /\ ui = Idle
  /\ pending = {}
  /\ issued = << >>
  /\ dash = Mounted(<< >>, 0, 0, 0)
  /\ norm = Uncalled("none", Undefined, "")
  /\ storage \in AppStores
  /\ app = AppState(<< >>, TRUE, {Task(0, "fetch", MountCall, storage)}, 0, FALSE)

\* The user deletes, updates or imports: the handler calls the store and awaits.
UiAction ==
  \E call \in UiCalls :
    /\ app.started < MaxUi
    /\ app' = [app EXCEPT !.started = app.started + 1,
                          !.tasks = app.tasks
                                      \cup {Task(app.started + 1, "op", call, storage)}]
    /\ UNCHANGED << storage, last, calls, ui, pending, issued, dash, norm >>

\* The store call of a handler completes.  When it returns, the handler
\* calls onDataChange, which is fetchData: loading is set if no data is
\* shown, and getAll is awaited.  When it throws, the handler ends.
CompleteOp ==
  \E task \in app.tasks :
    /\ task.phase = "op"
    /\ LET out == Perform(storage, task.call)
           rest == app.tasks \ {task}
       IN  /\ storage' = out.storage
           /\ app' = IF out.result = "ok"
                     THEN [app EXCEPT
                             !.tasks = rest \cup {Task(task.n, "fetch", task.call, out.storage)},
                             !.loading = (Len(app.data) = 0) \/ app.loading,
                             !.overlapped = app.overlapped
                                              \/ \E other \in rest : other.phase = "fetch"]
                     ELSE [app EXCEPT !.tasks = rest]
    /\ UNCHANGED << last, calls, ui, pending, issued, dash, norm >>

\* The getAll of a fetchData completes: setData(items), setLoading(false).
CompleteFetch ==
  \E task \in app.tasks :
    /\ task.phase = "fetch"
    /\ app' = [app EXCEPT !.tasks = app.tasks \ {task},
                          !.data = Fetched(task, storage),
                          !.loading = FALSE]
    /\ UNCHANGED << storage, last, calls, ui, pending, issued, dash, norm >>

NextApp ==
  \/ UiAction
  \/ CompleteOp
  \/ CompleteFetch

SpecApp == InitApp /\ [][NextApp]_vars

(* ------------------------------------------------------------------ *)
(* Properties                                                         *)
(* ------------------------------------------------------------------ *)

\* String(record.id), as the store compares ids.
IdOf(rec) == StringOf(Get(ObjOf(rec), "id"))

FieldOf(rec, key) == Get(ObjOf(rec), key)

UniqueIds(items) ==
  \A i, j \in 1..Len(items) : i # j => IdOf(items[i]) # IdOf(items[j])

IdsOf(items) == { IdOf(items[i]) : i \in 1..Len(items) }

\* The step is a store call that found a readable store.
IsCall(op) == calls' = calls + 1 /\ last'.op = op

\* The ids a call of importBulk assigns to the elements of its batch: the
\* element's own id when it has one, else what generateId() returned.
AssignedIds(call) ==
  [i \in 1..Len(call.batch) |->
     IF Truthy(Get(call.batch[i], "id")) THEN StringOf(Get(call.batch[i], "id"))
     ELSE call.generated[i]]

\* The ids a call assigns are new: different from one another and from every
\* id the store holds; an update assigns one when its updates name id.
AssignsOnlyNewIds(items, call) ==
  CASE call.op = "update" -> "id" \notin DOMAIN call.updates
    [] call.op = "add" -> call.generated[1] \notin IdsOf(items)
    [] call.op = "importBulk" ->
         /\ \A i \in 1..Len(call.batch) : AssignedIds(call)[i] \notin IdsOf(items)
         /\ \A i, j \in 1..Len(call.batch) :
              i # j => AssignedIds(call)[i] # AssignedIds(call)[j]
    [] OTHER -> TRUE

\* C1 as stated: in every reachable store state no two stored records have
\* the same id.
C1_IdsAlwaysUnique == UniqueIds(Items)

\* C1 amended: ids stay unique across every store call that assigns only
\* new ids (add, importBulk: generated or source ids that are not stored
\* yet and not repeated in the batch; update: updates that do not name id);
\* delete and such an update never make two ids equal.
C1_UniqueWhenIdsAreNew ==
  [][ (UniqueIds(Items) /\ AssignsOnlyNewIds(Items, last')) => UniqueIds(Items') ]_vars

\* C1 witness: an import into a store that holds a record added records with
\* new ids, and the ids are unique.
C1_Witness ==
  /\ last.op = "importBulk" /\ last.result = "ok"
  /\ Len(last.batch) >= 1 /\ Len(Items) > Len(last.batch)
  /\ UniqueIds(Items)

\* The records an importBulk call that has just returned appended.
Appended == SubSeq(Items, Len(Items) - Len(last.batch) + 1, Len(Items))

\* C2: every record importBulk stores has a status among the members of
\* EquipmentStatus and a type among the members of EquipmentType, whatever
\* the source's status and type were.
C2_ImportedEnumsAreMembers ==
  (last.op = "importBulk" /\ last.result = "ok") =>
    \A i \in 1..Len(Appended) :
      /\ StringOf(FieldOf(Appended[i], "status")) \in EquipmentStatus
      /\ StringOf(FieldOf(Appended[i], "type")) \in EquipmentType

\* A text that is the ISO-8601 form of an instant.
IsIsoInstant(s) == ParseDate(s) # NaN /\ ToISOString(ParseDate(s)) = s

IsStoredDate(x) == x.t = "string" /\ (x.v = "" \/ IsIsoInstant(x.v))

\* C3: every stored record's dueDate and issueDate is the empty string or a
\* valid ISO-8601 instant.
C3_StoredDatesAreEmptyOrIso ==
  \A i \in 1..Len(Items) :
    IsStoredDate(FieldOf(Items[i], "dueDate")) /\ IsStoredDate(FieldOf(Items[i], "issueDate"))

\* C4: an update, whatever its updates, leaves the updated record's
\* createdAt as it was.
C4_UpdateKeepsCreatedAt ==
  [][ (IsCall("update") /\ last'.result = "ok") =>
        FieldOf(Items'[FindIndex(Items, last'.id)], "createdAt")
          = FieldOf(Items[FindIndex(Items, last'.id)], "createdAt") ]_vars

\* C5: no store call changes the id of a record that is in the store: an
\* update keeps every record's id, add and importBulk keep the ids of the
\* records they append to.
C5_StoredIdsNeverChange ==
  [][ /\ IsCall("update") => \A i \in 1..Len(Items) :
                               FieldOf(Items'[i], "id") = FieldOf(Items[i], "id")
      /\ (IsCall("add") \/ IsCall("importBulk")) =>
           \A i \in 1..Len(Items) : FieldOf(Items'[i], "id") = FieldOf(Items[i], "id") ]_vars

\* C6: an update whose id matches no stored record fails with 'Item not
\* found' and leaves what is persisted exactly as it was.
C6_UpdateOfUnknownIdFails ==
  [][ (IsCall("update") /\ FindIndex(Items, last'.id) = 0) =>
        (last'.result = "Item not found" /\ storage' = storage) ]_vars

\* C6 witness: an update of an id that a non-empty store does not hold has
\* failed.
C6_Witness ==
  /\ last.op = "update" /\ last.result = "Item not found"
  /\ Len(Items) > 0 /\ FindIndex(Items, last.id) = 0

\* C7: a delete whose id matches no stored record ends in an error.
C7_DeleteOfUnknownIdFails ==
  [][ (IsCall("delete") /\ FindIndex(Items, last'.id) = 0) => last'.result # "ok" ]_vars

\* C8: with an unparseable text persisted, every store call ends without an
\* error and finds the collection empty.
C8_CorruptStoreReadsAsEmpty ==
  [][ (storage.kind = "corrupt" /\ calls' = calls + 1) =>
        /\ last'.result = "ok"
        /\ last'.op = "getAll" => last'.ret = << >>
        /\ last'.op = "delete" => Items' = << >> ]_vars

\* C9: importBulk leaves the previous records, unchanged and in order,
\* followed by one mapped record per element of the batch, in batch order.
C9_ImportAppendsMappedBatch ==
  [][ IsCall("importBulk") =>
        \E gids \in [1..Len(last'.batch) -> GenIds], now \in Nows :
          Items' = Items \o [i \in 1..Len(last'.batch) |->
                               MapItem(last'.batch[i], gids[i], now)] ]_vars

\* C10: importBulk never fails, and stores a record for every element of
\* the array, whatever the elements are.
C10_ImportNeverFails ==
  [][ IsCall("importBulk") =>
        (last'.result = "ok" /\ Len(Items') = Len(Items) + Len(last'.batch)) ]_vars

\* The batch of the spec's Bulk Importer example: [{id: 1}, {id: 1}].
TwinBatch == << ItemNumericId, ItemNumericId >>

\* The batch was imported into the empty store, as the first call.
TwinImportedOnce ==
  /\ calls = 1 /\ last.op = "importBulk" /\ last.result = "ok" /\ last.batch = TwinBatch

\* The step imports the batch again.
TwinImportedAgain == TwinImportedOnce /\ IsCall("importBulk") /\ last'.batch = TwinBatch

\* C11 as stated: importing [{id: 1}, {id: 1}] twice against the empty store
\* leaves 2 stored records, both with id "1".
C11_TwinTwiceLeavesTwo ==
  [][ TwinImportedAgain =>
        (Len(Items') = 2 /\ \A i \in 1..Len(Items') : FieldOf(Items'[i], "id") = Str("1")) ]_vars

\* C11 amended: importing [{id: 1}, {id: 1}] twice against the empty store
\* leaves 4 stored records (2 after the first import), all with the string
\* "1" as id.
C11_TwinTwiceLeavesFour ==
  [][ TwinImportedAgain =>
        /\ Len(Items) = 2 /\ Len(Items') = 4
        /\ \A i \in 1..Len(Items') : FieldOf(Items'[i], "id") = Str("1") ]_vars

\* C11 witness: the batch has been imported twice.
C11_Witness ==
  /\ calls = 2 /\ last.op = "importBulk" /\ last.result = "ok" /\ last.batch = TwinBatch
  /\ Len(Items) = 4 /\ \A i \in 1..Len(Items) : IdOf(Items[i]) = "1"

\* C12: an import of a file whose text does not parse, or whose root is not
\* an array, shows an error alert and leaves what is persisted as it was.
C12_BadFileIsRejectedUnwritten ==
  [][ (calls' = calls + 1 /\ ui'.file.kind \in {"unparseable", "value"}) =>
        /\ ui'.file.kind = "unparseable" => ui'.alert = AlertInvalidJson
        /\ ui'.file.kind = "value" => ui'.alert = AlertNotArray
        /\ storage' = storage
        /\ last'.op = "none" ]_vars

\* C12 witness: a file whose root is not an array was rejected while the
\* store held records.
C12_Witness ==
  /\ ui.file.kind = "value" /\ ui.alert = AlertNotArray /\ Len(Items) > 0

\* The permutations of 1..n, as sequences.
RECURSIVE Orders(_)
Orders(S) ==
  IF S = {} THEN { << >> }
  ELSE UNION { { << x >> \o rest : rest \in Orders(S \ {x}) } : x \in S }

\* The localStorage value after the calls, one at a time in the given order.
RECURSIVE Serially(_, _, _)
Serially(stored, callSeq, order) ==
  IF order = << >> THEN stored
  ELSE Serially(Perform(stored, callSeq[order[1]]).storage, callSeq, Tail(order))

SerialResults(callSeq) ==
  { Serially(NoValue, callSeq, order) : order \in Orders(1..Len(callSeq)) }

\* C13: once every call issued without awaiting has completed, what is
\* persisted is what those calls leave when made one at a time in some order.
C13_UnawaitedCallsAreSerializable ==
  pending = {} => storage \in SerialResults(issued)

\* C13 witness: an import, an add and one more call were all issued before
\* any of them ran, and all have completed.
C13_Witness ==
  /\ pending = {} /\ Len(issued) = 3
  /\ \A i \in 1..Len(issued) : issued[i].seen = NoValue
  /\ \E i, j \in 1..Len(issued) : issued[i].op = "importBulk" /\ issued[j].op = "add"
  /\ Len(Items) = 2

\* The step completes a call issued before the last write to localStorage:
\* another call, issued concurrently with it, has written in between.
CompletesLater(call) ==
  /\ call \in pending /\ pending' = pending \ {call}
  /\ call.seen # storage

\* C14 as stated: of two mutating calls issued concurrently, the one that
\* writes later replaces the whole collection with its own result on the
\* collection as it was when the call was issued, so that the effect of the
\* other call is absent (last writer wins).
C14_LaterWriteDropsEarlier ==
  [][ \A call \in pending :
        (CompletesLater(call) /\ Perform(call.seen, call).result = "ok") =>
          storage' = Perform(call.seen, call).storage ]_vars

\* C14 amended: of two mutating calls issued concurrently, the one that
\* writes later works on the collection the other one left, so that its write
\* keeps the effect of the other call.
C14_LaterWriteKeepsEarlier ==
  [][ \A call \in pending :
        CompletesLater(call) => storage' = Perform(storage, call).storage ]_vars

\* C14 witness: an import and an add were issued on the empty store before
\* either ran; both have completed and both records are persisted.
C14_Witness ==
  /\ pending = {} /\ Len(issued) = 2
  /\ issued[1].seen = NoValue /\ issued[2].seen = NoValue
  /\ {issued[1].op, issued[2].op} = {"importBulk", "add"}
  /\ Len(Items) = 2
  /\ \E i \in 1..2 : IdOf(Items[i]) = "1"
  /\ \E i \in 1..2 : IdOf(Items[i]) = "k3x9q7m2a"

\* The source element has the key (whatever its value).
Has(src, key) == key \in DOMAIN Props(src)

\* The string form of the source's value under the key, as a stored field.
Source(src, key) == Str(StringOf(Get(src, key)))

\* The last call was an import that succeeded: Appended[i] is the record
\* stored for last.batch[i].
Imported == last.op = "importBulk" /\ last.result = "ok"

\* C15: of an imported element, a present equipment_name is the stored name,
\* and then a present name is the stored assigneeName unless assigneeName or
\* assignee_name is present; with no equipment_name, the stored name is the
\* source's name, or "Unknown Equipment" when name is absent.
C15_EquipmentNameKeyDecidesName ==
  Imported =>
    \A i \in 1..Len(last.batch) :
      LET src == last.batch[i]
          rec == Appended[i]
      IN  /\ Has(src, "equipment_name") =>
               FieldOf(rec, "name") = Source(src, "equipment_name")
          /\ ( Has(src, "equipment_name") /\ Has(src, "name")
               /\ ~Has(src, "assigneeName") /\ ~Has(src, "assignee_name") ) =>
               FieldOf(rec, "assigneeName") = Source(src, "name")
          /\ ~Has(src, "equipment_name") =>
               FieldOf(rec, "name") = IF Has(src, "name") THEN Source(src, "name")
                                      ELSE Str("Unknown Equipment")

\* C16: of an imported element, a present id is stored in its string form,
\* and a generated identifier is stored only when the element has no id.
C16_PresentIdIsKept ==
  Imported =>
    \A i \in 1..Len(last.batch) :
      LET src == last.batch[i]
          rec == Appended[i]
      IN  /\ Has(src, "id") => FieldOf(rec, "id") = Source(src, "id")
          /\ FieldOf(rec, "id").v \in GenIds => ~Has(src, "id")

\* The string form of the value under the first key of the list the source
\* has, or the default when it has none of them.
RECURSIVE FirstPresent(_, _, _)
FirstPresent(src, keys, default) ==
  IF keys = << >> THEN Str(default)
  ELSE IF Has(src, keys[1]) THEN Source(src, keys[1])
       ELSE FirstPresent(src, Tail(keys), default)

\* C17: of an imported element, serialNumber, empId and service are stored
\* from the first of their aliases that is present, and take their default
\* only when no alias is present.
C17_FirstPresentAliasWins ==
  Imported =>
    \A i \in 1..Len(last.batch) :
      LET src == last.batch[i]
          rec == Appended[i]
      IN  /\ FieldOf(rec, "serialNumber") =
               FirstPresent(src, << "serialNumber", "serial_number", "SerialNumber" >>, "N/A")
          /\ FieldOf(rec, "empId") =
               FirstPresent(src, << "empId", "emp_id", "employee_id" >>, "")
          /\ FieldOf(rec, "service") = FirstPresent(src, << "service", "services" >>, "")

\* C18: an update that succeeds changes, in the first stored record whose id
\* string-equals the id argument, exactly the fields the updates name, to the
\* values supplied; that record's other fields, every other record, the
\* number of records and their order stay as they were.
C18_UpdateIsPartialMerge ==
  [][ (IsCall("update") /\ last'.result = "ok") =>
        LET index == FindIndex(Items, last'.id)
            updates == last'.updates
        IN  /\ index # 0
            /\ \A i \in 1..(index - 1) : IdOf(Items[i]) # StringOf(last'.id)
            /\ Len(Items') = Len(Items)
            /\ \A i \in 1..Len(Items) : i # index => Items'[i] = Items[i]
            /\ \A key \in DOMAIN updates : FieldOf(Items'[index], key) = updates[key]
            /\ \A key \in (DOMAIN Items[index]) \ (DOMAIN updates) :
                 /\ key \in DOMAIN Items'[index]
                 /\ Items'[index][key] = Items[index][key]
            /\ DOMAIN Items'[index] \subseteq (DOMAIN Items[index]) \cup (DOMAIN updates) ]_vars

\* C18 witness: of two stored records with the id "1", an update of "1" has
\* set the status of the first and left the second as imported.
C18_Witness ==
  /\ last.op = "update" /\ last.result = "ok" /\ last.id = Str("1")
  /\ "status" \in DOMAIN last.updates
  /\ Len(Items) = 2 /\ IdOf(Items[1]) = "1" /\ IdOf(Items[2]) = "1"
  /\ FieldOf(Items[1], "status") = Str("Assigned")
  /\ FieldOf(Items[2], "status") = Str("Breakdown")
  /\ FieldOf(Items[1], "name") = Str("Unknown Equipment")

\* The number of records of the data that satisfy the test.
CountOf(data, Test(_)) == Cardinality({ i \in 1..Len(data) : Test(data[i]) })

\* The record's status is the name but for the case of its letters.
StatusIs(rec, name) == ToLowerCase(StringOf(FieldOf(rec, "status"))) = ToLowerCase(name)

\* The record's status is the name but for the case of its letters and for
\* white space around it.
StatusIsTrimmed(rec, name) ==
  Trim(ToLowerCase(StringOf(FieldOf(rec, "status")))) = ToLowerCase(name)

\* C19 as stated: the breakdown and maintenance counts are the numbers of
\* records whose status is "Breakdown" and "Maintenance", letter case aside.
C19_CountsIgnoreCaseOnly ==
  dash.rendered =>
    /\ dash.stats.breakdown = CountOf(dash.data, LAMBDA rec : StatusIs(rec, "Breakdown"))
    /\ dash.stats.maintenance = CountOf(dash.data, LAMBDA rec : StatusIs(rec, "Maintenance"))

\* C19 amended: the breakdown and maintenance counts are the numbers of
\* records whose status is "Breakdown" and "Maintenance", letter case and
\* surrounding white space aside.
C19_CountsIgnoreCaseAndSpace ==
  dash.rendered =>
    /\ dash.stats.breakdown
         = CountOf(dash.data, LAMBDA rec : StatusIsTrimmed(rec, "Breakdown"))
    /\ dash.stats.maintenance
         = CountOf(dash.data, LAMBDA rec : StatusIsTrimmed(rec, "Maintenance"))

\* C19 witness: the stats of a record with status "breakdown" and one with
\* status "Breakdown" count 2 breakdowns.
C19_Witness ==
  /\ dash.rendered /\ Len(dash.data) = 2
  /\ FieldOf(dash.data[1], "status") = Str("breakdown")
  /\ FieldOf(dash.data[2], "status") = Str("Breakdown")
  /\ dash.stats.breakdown = 2 /\ dash.stats.maintenance = 0

\* The record's dueDate is a valid instant at or before 30 days (of 24
\* hours) after now.
DueWithin30Days(rec, now) ==
  /\ DateOf(FieldOf(rec, "dueDate")) # NaN
  /\ DateOf(FieldOf(rec, "dueDate")) * HoursPerDay <= now + 30 * HoursPerDay

\* C20: the expired count is the number of records whose dueDate is a valid
\* instant at or before now + 30 days.
C20_ExpiredIsDueWithin30Days ==
  dash.rendered =>
    dash.stats.expired = CountOf(dash.data, LAMBDA rec : DueWithin30Days(rec, dash.now))

\* The label ingestion gives the record's type.
TypeLabel(rec) == normalizeEnum(FieldOf(rec, "type"), "Other")

\* C21: every record is counted in the byType bucket named by
\* normalizeEnum(record.type, "Other"): the buckets are those labels and each
\* holds the number of records of its label.
C21_BucketsAreNormalizedTypes ==
  dash.rendered =>
    /\ DOMAIN dash.stats.byType = { TypeLabel(dash.data[i]) : i \in 1..Len(dash.data) }
    /\ \A i \in 1..Len(dash.data) :
         LET label == TypeLabel(dash.data[i])
         IN  /\ label \in DOMAIN dash.stats.byType
             /\ dash.stats.byType[label]
                  = CountOf(dash.data, LAMBDA rec : TypeLabel(rec) = label)

\* The value is absent or empty: undefined, null, or a string of nothing
\* but white space.
IsEmptyOrAbsent(val) ==
  val.t \in {"undefined", "null"} \/ (val.t = "string" /\ Trim(val.v) = "")

\* The trimmed text, first character in upper case, the rest in lower case.
TitleCase(text) ==
  ToUpperCase(SubSeq(Trim(text), 1, 1)) \o ToLowerCase(SubSeq(Trim(text), 2, Len(Trim(text))))

\* C22: normalizeEnum(v, fallback) returns, for every v, the fallback when v
\* is empty or absent, and otherwise the trimmed string form of v with its
\* first character in upper case and the others in lower case.
C22_NormalizeEnumTitleCases ==
  (norm.fn = "normalizeEnum" /\ norm.applied = 1) =>
    /\ ~norm.threw
    /\ norm.out = IF IsEmptyOrAbsent(norm.val) THEN norm.fallback
                  ELSE TitleCase(StringOf(norm.val))

\* C23: safeDate never throws; what it returns is the empty string, for a
\* falsy or unparseable value, or an ISO-8601 text of the instant the value
\* parses to, which parses to that instant again; safeDate of what it
\* returned is what it returned.
C23_SafeDateIsStable ==
  (norm.fn = "safeDate" /\ norm.applied >= 1) =>
    /\ ~norm.threw
    /\ norm.applied = 1 =>
         IF ~Truthy(norm.val) \/ DateOf(norm.val) = NaN THEN norm.out = ""
         ELSE IsIsoInstant(norm.out) /\ ParseDate(norm.out) = DateOf(norm.val)
    /\ norm.applied = 2 => norm.out = norm.prev

\* C24: a delete removes every stored record whose id string-equals the id
\* argument, and nothing else: what is left are the other records, each as
\* it was and in the order they had, and none of them has that id.
C24_DeleteRemovesEveryMatch ==
  [][ (IsCall("delete") /\ last'.result = "ok") =>
        /\ Items' = SelectSeq(Items, LAMBDA rec : IdOf(rec) # StringOf(last'.id))
        /\ \A i \in 1..Len(Items') : IdOf(Items'[i]) # StringOf(last'.id) ]_vars

\* C24 witness: of the records with ids "1", "43", "1", in that order, a
\* delete of "1" has left the one with id "43".
C24_Witness ==
  /\ calls = 2 /\ last.op = "delete" /\ last.result = "ok" /\ last.id = Str("1")
  /\ Len(Items) = 1 /\ IdOf(Items[1]) = "43" /\ FieldOf(Items[1], "name") = Str("Winch")

\* No handler of the App is awaiting a store call.
Quiescent == app.tasks = {}

\* C25: whenever no store call and no fetch of the App is pending, after
\* any deletes, updates and imports of the user and however their refreshes
\* overlapped, the data the App shows is the persisted collection.
C25_DataConvergesToStore == Quiescent => app.data = Items

\* C25 witness: after two actions of the user whose refreshes overlapped,
\* nothing is pending and the records shown are the ones persisted.
C25_Witness ==
  /\ Quiescent /\ app.started = 2 /\ app.overlapped
  /\ Len(Items) >= 1 /\ app.data = Items /\ ~app.loading

====
